---- MODULE Spec2Model ----
(***************************************************************************)
(* Model of the Clara pre-consultation interview engine:                   *)
(*   core/conversation_state.py  (ConversationState)                       *)
(*   core/clara_agent.py         (ClaraAgent)                              *)
(*   ui/chat_interface.py        (render_chat_interface, the driver)       *)
(* Texts are TLA+ strings; substring tests, lower(), strip() and split()   *)
(* are computed on them character by character, as Python computes them.   *)
(***************************************************************************)
EXTENDS Integers, Sequences, FiniteSets, TLC

VARIABLES
    checklist_template,   \* ClaraAgent.checklist_template (loaded JSON, read-only)
    state,                \* ClaraAgent.state : ConversationState
    conversation_started, \* ClaraAgent.conversation_started
    call,                 \* the last agent call and its inputs
    ret,                  \* what the last agent call returned (or that it raised)
    session               \* st.session_state of the chat interface

vars == <<checklist_template, state, conversation_started, call, ret, session>>

(***************************************************************************)
(* Bounds of the model.                                                    *)
(***************************************************************************)
\* A caller of the agent submits at most this many utterances (one per call
\* of process_patient_response or handle_red_flag_response).
MaxTurns == 3

\* The patient types at most this many inputs into the chat interface.
MaxInputs == 3

\* Direct calls on a ConversationState: at most this many messages and
\* red-flag events are recorded.
MaxStateMessages == 5
MaxStateFlags == 2

\* Python's None.
None == "None"

(***************************************************************************)
(* Python string operations.                                               *)
(***************************************************************************)
UpperCase == "ABCDEFGHIJKLMNOPQRSTUVWXYZ"
LowerCase == "abcdefghijklmnopqrstuvwxyz"

\* str.lower() on one character
LowerOf ==
    [c \in {SubSeq(UpperCase, i, i) : i \in 1..Len(UpperCase)} |->
        LET i == CHOOSE j \in 1..Len(UpperCase) : SubSeq(UpperCase, j, j) = c
        IN  SubSeq(LowerCase, i, i)]

LowerChar(c) == IF c \in DOMAIN LowerOf THEN LowerOf[c] ELSE c

RECURSIVE Lower(_)
\* str.lower()
Lower(s) ==
    IF Len(s) = 0 THEN ""
    ELSE LowerChar(SubSeq(s, 1, 1)) \o Lower(SubSeq(s, 2, Len(s)))

\* Python's `k in s` for strings: k occurs as a substring of s
Contains(s, k) ==
    \E i \in 1..(Len(s) - Len(k) + 1) : SubSeq(s, i, i + Len(k) - 1) = k

\* any(keyword in s for keyword in keywords)
ContainsAny(s, keywords) ==
    \E j \in 1..Len(keywords) : Contains(s, keywords[j])

IsSpace(c) == c \in {" ", "\n", "\t"}

\* len(s.split()): the number of maximal runs of non-whitespace characters
WordCount(s) ==
    Cardinality({i \in 1..Len(s) :
        /\ ~IsSpace(SubSeq(s, i, i))
        /\ (i = 1 \/ IsSpace(SubSeq(s, i - 1, i - 1)))})

\* str.strip()
Strip(s) ==
    LET keep == {i \in 1..Len(s) : ~IsSpace(SubSeq(s, i, i))}
    IN  IF keep = {} THEN ""
        ELSE LET lo == CHOOSE i \in keep : \A j \in keep : i <= j
                 hi == CHOOSE i \in keep : \A j \in keep : i >= j
             IN  SubSeq(s, lo, hi)

RECURSIVE Replace(_, _, _)
\* str.replace(old, new), old non-empty
Replace(s, old, new) ==
    IF Len(s) < Len(old) THEN s
    ELSE IF SubSeq(s, 1, Len(old)) = old
         THEN new \o Replace(SubSeq(s, Len(old) + 1, Len(s)), old, new)
         ELSE SubSeq(s, 1, 1) \o Replace(SubSeq(s, 2, Len(s)), old, new)

(***************************************************************************)
(* The checklist template (data/checklist_template.json): loaded data.     *)
(* Each template lists its checklist entries in declaration order.         *)
(***************************************************************************)
patient_name == "Test Patient"
doctor_name == "Dr Smith"

RedFlagsEntry(req) ==
    [id |-> "red_flags",
     details |-> [name |-> "Red flag screening", required |-> req, priority |-> 4,
                  completed |-> FALSE,
                  red_flag_categories |->
                      [cardiac_chest_pain |->
                          [severity |-> "critical",
                           response_template |-> "medical_emergency_cardiac"]]]]

RedFlagResponses ==
    [medical_emergency_cardiac |->
        [message |-> "This could be a medical emergency. Please call 999 now. Will you do that?"],
     end_after_accept |->
        [message |-> "Please seek help now. I will let {doctor_name} know."],
     continue_after_decline |->
        [message |-> "I understand. I will note this for {doctor_name}."]]

\* spec.md section 8: required {chief_complaint: 1, closing: 99}
TemplateScenario ==
    [opening_message |-> "Hi! I'm Clara.",
     checklist |-> <<
        [id |-> "chief_complaint",
         details |-> [name |-> "Chief complaint", required |-> TRUE, priority |-> 1,
                      completed |-> FALSE,
                      questions |-> <<"What brings you in today?">>]],
        RedFlagsEntry(FALSE),
        [id |-> "closing",
         details |-> [name |-> "Closing", required |-> TRUE, priority |-> 99,
                      completed |-> FALSE,
                      questions |-> <<"Is there anything else?">>]] >>,
     red_flag_responses |-> RedFlagResponses,
     conversation_rules |-> [max_questions |-> 5]]

\* entries declared out of priority order, one optional topic, one entry
\* without a priority and without a completed key
TemplateUnordered ==
    [opening_message |-> "Hi! I'm Clara.",
     checklist |-> <<
        [id |-> "chief_complaint",
         details |-> [name |-> "Chief complaint", required |-> TRUE, priority |-> 1,
                      completed |-> FALSE,
                      questions |-> <<"What brings you in today?">>]],
        [id |-> "closing",
         details |-> [name |-> "Closing", required |-> TRUE, priority |-> 99,
                      completed |-> FALSE,
                      questions |-> <<"Is there anything else?">>]],
        [id |-> "family_history",
         details |-> [name |-> "Family history",
                      questions |-> <<"Any conditions in the family?">>]],
        RedFlagsEntry(TRUE) >>,
     red_flag_responses |-> RedFlagResponses,
     conversation_rules |-> [max_questions |-> 2]]

Templates == {TemplateScenario, TemplateUnordered}

(***************************************************************************)
(* dict.get(key, default)                                                  *)
(***************************************************************************)
Get(d, key, default) == IF key \in DOMAIN d THEN d[key] ELSE default

\* d[key] = value on a dict
SetKey(d, key, value) ==
    [k \in DOMAIN d \cup {key} |-> IF k = key THEN value ELSE d[k]]

(***************************************************************************)
(* ConversationState (core/conversation_state.py).  A state value s is the *)
(* record of the object's fields; each method is an operator from the      *)
(* state before the call to the state after it.                            *)
(***************************************************************************)
RECURSIVE SelectIds_every_entry(_, _)
\* the ids of all entries, whatever their required key
SelectIds_every_entry(entries, req) ==
    IF entries = <<>> THEN <<>>
    ELSE <<Head(entries).id>> \o SelectIds_every_entry(Tail(entries), req)

RECURSIVE SelectIds(_, _)
\* the ids of the entries (in order) whose .get('required', False) is req
SelectIds(entries, req) ==
    IF entries = <<>> THEN <<>>
    ELSE LET e == Head(entries)
             rest == SelectIds(Tail(entries), req)
         IN  IF Get(e.details, "required", FALSE) = req
             THEN <<e.id>> \o rest ELSE rest

\* ConversationState.__init__ and _initialize_checklist
NewState(template) ==
    [status |-> "in_progress",
     ended_at |-> None,
     messages |-> <<>>,
     checklist |-> [t \in {template.checklist[i].id : i \in DOMAIN template.checklist} |->
                      LET i == CHOOSE j \in DOMAIN template.checklist :
                                   template.checklist[j].id = t
                      IN  template.checklist[i].details],
     topics_completed |-> <<>>,
     topics_required |-> SelectIds(template.checklist, TRUE),
     topics_optional |-> SelectIds(template.checklist, FALSE),
     question_count |-> 0,
     max_questions |-> Get(Get(template, "conversation_rules", <<>>), "max_questions", 20),
     red_flags_detected |-> <<>>,
     conversation_ended_for_emergency |-> FALSE]

InSeq(x, seq) == \E i \in DOMAIN seq : seq[i] = x

\* the message put at the head of the transcript
add_message_at_head(s, speaker, text, topic, flags) ==
    LET message == [speaker |-> speaker, text |-> text, topic |-> topic, flags |-> flags]
    IN  [s EXCEPT !.messages = <<message>> \o @,
                  !.question_count = IF speaker = "clara" THEN @ + 1 ELSE @]

\* the message stored without its topic
add_message_no_topic(s, speaker, text, topic, flags) ==
    LET message == [speaker |-> speaker, text |-> text, topic |-> None, flags |-> flags]
    IN  [s EXCEPT !.messages = Append(@, message),
                  !.question_count = IF speaker = "clara" THEN @ + 1 ELSE @]

\* add_message counting every message, whoever speaks
add_message_counts_all(s, speaker, text, topic, flags) ==
    [s EXCEPT !.messages = Append(@, [speaker |-> speaker, text |-> text,
                                       topic |-> topic, flags |-> flags]),
              !.question_count = @ + 1]

add_message(s, speaker, text, topic, flags) ==
    [s EXCEPT !.messages = Append(@, [speaker |-> speaker, text |-> text,
                                       topic |-> topic, flags |-> flags]),
              !.question_count = IF speaker = "clara" THEN @ + 1 ELSE @]

\* mark_topic_complete appending the topic on every call
mark_topic_complete_appends_again(s, topic) ==
    IF topic \in DOMAIN s.checklist
    THEN [s EXCEPT !.checklist[topic] = SetKey(@, "completed", TRUE),
                   !.topics_completed = Append(@, topic)]
    ELSE s

\* mark_topic_complete appending to topics_completed outside the checklist test
mark_topic_complete_appends_unknown(s, topic) ==
    LET s1 == IF topic \in DOMAIN s.checklist
              THEN [s EXCEPT !.checklist[topic] = SetKey(@, "completed", TRUE)]
              ELSE s
    IN  [s1 EXCEPT !.topics_completed = IF InSeq(topic, @) THEN @ ELSE Append(@, topic)]

\* mark_topic_complete setting the flag without listing the topic
mark_topic_complete_flag_only(s, topic) ==
    IF topic \in DOMAIN s.checklist
    THEN [s EXCEPT !.checklist[topic] = SetKey(@, "completed", TRUE)]
    ELSE s

mark_topic_complete(s, topic) ==
    IF topic \in DOMAIN s.checklist
    THEN [s EXCEPT !.checklist[topic] = SetKey(@, "completed", TRUE),
                   !.topics_completed = IF InSeq(topic, @) THEN @ ELSE Append(@, topic)]
    ELSE s

is_topic_complete(s, topic) ==
    IF topic \in DOMAIN s.checklist
    THEN Get(s.checklist[topic], "completed", FALSE)
    ELSE FALSE

RECURSIVE Incomplete(_, _)
\* [topic for topic in topics if not self.is_topic_complete(topic)]
Incomplete(s, topics) ==
    IF topics = <<>> THEN <<>>
    ELSE IF is_topic_complete(s, Head(topics))
         THEN Incomplete(s, Tail(topics))
         ELSE <<Head(topics)>> \o Incomplete(s, Tail(topics))

get_incomplete_required_topics(s) == Incomplete(s, s.topics_required)

\* self.checklist[topic].get('priority', 999)
DefaultPriority == 999
PriorityOf(s, topic) == Get(s.checklist[topic], "priority", DefaultPriority)

\* get_next_priority_topic taking the first incomplete topic as declared
get_next_priority_topic_first_declared(s) ==
    LET required == get_incomplete_required_topics(s)
        incomplete == IF required = <<>>
                      THEN Incomplete(s, s.topics_optional)
                      ELSE required
    IN  IF incomplete = <<>> THEN None ELSE incomplete[1]

\* get_next_priority_topic looking at the optional topics before the
\* required ones
get_next_priority_topic_optional_first(s) ==
    LET optional == Incomplete(s, s.topics_optional)
        incomplete == IF optional = <<>>
                      THEN get_incomplete_required_topics(s)
                      ELSE optional
    IN  IF incomplete = <<>> THEN None
        ELSE LET i == CHOOSE j \in DOMAIN incomplete :
                        /\ \A k \in DOMAIN incomplete :
                              PriorityOf(s, incomplete[j]) <= PriorityOf(s, incomplete[k])
                        /\ \A k \in 1..(j - 1) :
                              PriorityOf(s, incomplete[k]) > PriorityOf(s, incomplete[j])
             IN  incomplete[i]

get_next_priority_topic(s) ==
    LET required == get_incomplete_required_topics(s)
        incomplete == IF required = <<>>
                      THEN Incomplete(s, s.topics_optional)
                      ELSE required
    IN  IF incomplete = <<>> THEN None
        ELSE \* list.sort is stable: the first entry of least priority
             LET i == CHOOSE j \in DOMAIN incomplete :
                        /\ \A k \in DOMAIN incomplete :
                              PriorityOf(s, incomplete[j]) <= PriorityOf(s, incomplete[k])
                        /\ \A k \in 1..(j - 1) :
                              PriorityOf(s, incomplete[k]) > PriorityOf(s, incomplete[j])
             IN  incomplete[i]

\* record_red_flag ending the conversation without setting the emergency flag
record_red_flag_no_emergency_flag(s, category, severity, patient_response, action_taken) ==
    LET event == [category |-> category, severity |-> severity,
                  patient_response |-> patient_response,
                  action_taken |-> action_taken]
        s1 == [s EXCEPT !.red_flags_detected = Append(@, event)]
    IN  IF action_taken = "ended_conversation"
        THEN [s1 EXCEPT !.status = "ended_early_emergency",
                        !.ended_at = "datetime"]
        ELSE s1

\* record_red_flag ending the conversation without setting ended_at
record_red_flag_no_stamp(s, category, severity, patient_response, action_taken) ==
    LET event == [category |-> category, severity |-> severity,
                  patient_response |-> patient_response,
                  action_taken |-> action_taken]
        s1 == [s EXCEPT !.red_flags_detected = Append(@, event)]
    IN  IF action_taken = "ended_conversation"
        THEN [s1 EXCEPT !.conversation_ended_for_emergency = TRUE,
                        !.status = "ended_early_emergency"]
        ELSE s1

\* record_red_flag recording its default action_taken, whatever is passed
record_red_flag_default_action(s, category, severity, patient_response, action_taken) ==
    [s EXCEPT !.red_flags_detected =
                  Append(@, [category |-> category, severity |-> severity,
                             patient_response |-> patient_response,
                             action_taken |-> "continued_with_warning"])]

record_red_flag(s, category, severity, patient_response, action_taken) ==
    LET event == [category |-> category, severity |-> severity,
                  patient_response |-> patient_response,
                  action_taken |-> action_taken]
        s1 == [s EXCEPT !.red_flags_detected = Append(@, event)]
    IN  IF action_taken = "ended_conversation"
        THEN [s1 EXCEPT !.conversation_ended_for_emergency = TRUE,
                        !.status = "ended_early_emergency",
                        !.ended_at = "datetime"]
        ELSE s1

\* should_end_conversation without the question cap
should_end_conversation_no_cap(s) ==
    IF s.conversation_ended_for_emergency THEN <<TRUE, "emergency">>
    ELSE IF is_topic_complete(s, "closing") THEN <<TRUE, "completed">>
    ELSE IF get_incomplete_required_topics(s) = <<>> THEN <<TRUE, "completed">>
    ELSE <<FALSE, "continue">>

\* should_end_conversation never looking at the topics
should_end_conversation_cap_only(s) ==
    IF s.conversation_ended_for_emergency THEN <<TRUE, "emergency">>
    ELSE IF s.question_count >= s.max_questions THEN <<TRUE, "max_questions">>
    ELSE <<FALSE, "continue">>

\* should_end_conversation testing the topics before the question limit
should_end_conversation_topics_first(s) ==
    IF s.conversation_ended_for_emergency THEN <<TRUE, "emergency">>
    ELSE IF is_topic_complete(s, "closing") THEN <<TRUE, "completed">>
    ELSE IF get_incomplete_required_topics(s) = <<>> THEN <<TRUE, "completed">>
    ELSE IF s.question_count >= s.max_questions THEN <<TRUE, "max_questions">>
    ELSE <<FALSE, "continue">>

should_end_conversation(s) ==
    IF s.conversation_ended_for_emergency THEN <<TRUE, "emergency">>
    ELSE IF s.question_count >= s.max_questions THEN <<TRUE, "max_questions">>
    ELSE IF is_topic_complete(s, "closing") THEN <<TRUE, "completed">>
    ELSE IF get_incomplete_required_topics(s) = <<>> THEN <<TRUE, "completed">>
    ELSE <<FALSE, "continue">>

\* end_conversation that does not stamp ended_at
end_conversation_no_stamp(s, status) ==
    [s EXCEPT !.status = status]

end_conversation(s, status) ==
    [s EXCEPT !.status = status, !.ended_at = "datetime"]

(***************************************************************************)
(* Inputs: what the patient says, what screening answers, what the         *)
(* question-generation call returns.                                       *)
(***************************************************************************)
\* answers to a question: at most 3 words or more, with and without a done phrase
Answers ==
    {"yes",
     "no, not going to"}

\* answers to the emergency message
Acknowledgements ==
    {"yes",
     "yes I'll call now",
     "Yes, I'll call 999 right now",
     "no, not going to"}

\* AzureOpenAIService.detect_red_flags: None, {category, severity}, or it raises
ScreeningOutcomes ==
    {[kind |-> "none"],
     [kind |-> "detected", category |-> "cardiac_chest_pain", severity |-> "critical"],
     [kind |-> "detected", category |-> "unknown_category", severity |-> "high"],
     [kind |-> "raises"]}

\* AzureOpenAIService.get_clara_response: the model's text (a question, or a
\* farewell)
ClaraResponses ==
    {"Mock question from Clara?",
     "Thank you. You're all set for your appointment!"}

(***************************************************************************)
(* ClaraAgent (core/clara_agent.py).  Each method is an operator giving    *)
(* the state after the call and what the call returned.                    *)
(***************************************************************************)
Returned(op, reply, should_end, end_reason) ==
    [op |-> op, raised |-> FALSE, reply |-> reply,
     should_end |-> should_end, end_reason |-> end_reason]

Raised(op, exception) ==
    [op |-> op, raised |-> TRUE, reply |-> exception,
     should_end |-> FALSE, end_reason |-> None]

start_conversation(s, template) ==
    LET opening_message == Get(template, "opening_message",
                               "Hi! I'm Clara. I'll be asking you some questions about your upcoming appointment with "
                               \o doctor_name \o ".")
        entry == CHOOSE e \in {template.checklist[i] : i \in DOMAIN template.checklist} :
                     e.id = "chief_complaint"
        first_question == entry.details.questions[1]
        full_opening == opening_message \o "\n\n" \o first_question
    IN  [state |-> add_message(s, "clara", full_opening, "opening", <<>>),
         ret |-> Returned("start_conversation", full_opening, FALSE, None)]

_generate_closing_message ==
    "Thank you so much for taking the time to speak with me today, " \o patient_name
    \o ". Your responses will help " \o doctor_name
    \o " provide you with the best possible care.\n\nIf you feel there was anything you forgot to mention or would like to add, you can use the same link to speak with me again before your appointment.\n\nTake care, and I hope your appointment goes well!"

\* the last element of [msg for msg in messages if msg.speaker == "clara"]
LastClaraTopic(s) ==
    LET idx == {i \in DOMAIN s.messages : s.messages[i].speaker = "clara"}
    IN  IF idx = {} THEN None
        ELSE s.messages[CHOOSE i \in idx : \A j \in idx : j <= i].topic

done_phrases ==
    <<"no", "nope", "nothing", "that's all", "that's everything",
      "no thanks", "i think that's it", "nothing else", "all good",
      "that covers it", "i'm good", "we're good", "nothing more">>

\* the bookkeeping completing the last topic whatever the utterance's length
_update_checklist_from_response_any_length(s, patient_message) ==
    LET last_topic == LastClaraTopic(s)
    IN  IF last_topic = None \/ last_topic \notin DOMAIN s.checklist THEN s
        ELSE IF last_topic = "closing"
        THEN IF ContainsAny(Strip(Lower(patient_message)), done_phrases)
             THEN mark_topic_complete(s, "closing")
             ELSE s
        ELSE mark_topic_complete(s, last_topic)

_update_checklist_from_response(s, patient_message) ==
    LET last_topic == LastClaraTopic(s)
    IN  IF last_topic = None \/ last_topic \notin DOMAIN s.checklist THEN s
        ELSE IF last_topic = "closing"
        THEN LET response_lower == Strip(Lower(patient_message))
                 word_count == WordCount(patient_message)
                 is_done == ContainsAny(response_lower, done_phrases)
             IN  IF is_done /\ word_count < 10
                 THEN mark_topic_complete(s, "closing")
                 ELSE s
        ELSE IF WordCount(Strip(patient_message)) > 3
             THEN mark_topic_complete(s, last_topic)
             ELSE s

\* checklist_template['checklist']['red_flags']['red_flag_categories']
RedFlagCategories(template) ==
    LET entry == CHOOSE e \in {template.checklist[i] : i \in DOMAIN template.checklist} :
                     e.id = "red_flags"
    IN  entry.details.red_flag_categories

\* _check_red_flags recording the event and replying without appending the
\* emergency message to the transcript
_check_red_flags_silent(s, template, detected) ==
    IF detected.kind = "raises"
    THEN [state |-> s, is_none |-> FALSE,
          ret |-> Raised("process_patient_response", "Exception")]
    ELSE IF detected.kind = "none"
    THEN [state |-> s, is_none |-> TRUE,
          ret |-> Returned("_check_red_flags", None, FALSE, None)]
    ELSE IF detected.category \notin DOMAIN RedFlagCategories(template)
    THEN [state |-> s, is_none |-> FALSE,
          ret |-> Raised("process_patient_response", "KeyError")]
    ELSE LET name == RedFlagCategories(template)[detected.category].response_template
             emergency_message == template.red_flag_responses[name].message
         IN  [state |-> record_red_flag(s, detected.category, detected.severity, None,
                                        "awaiting_response"),
              is_none |-> FALSE,
              ret |-> Returned("process_patient_response", emergency_message,
                               FALSE, None)]

\* is_none when nothing is detected, else ret is the call's return value; a screening
\* call that raises, or a category that is no key of the catalogue
\* (KeyError at red_flag_categories[category]), leaves the method by exception.
_check_red_flags(s, template, detected) ==
    IF detected.kind = "raises"
    THEN [state |-> s, is_none |-> FALSE,
          ret |-> Raised("process_patient_response", "Exception")]
    ELSE IF detected.kind = "none"
    THEN [state |-> s, is_none |-> TRUE,
          ret |-> Returned("_check_red_flags", None, FALSE, None)]
    ELSE LET red_flag_categories == RedFlagCategories(template)
             category == detected.category
             severity == detected.severity
         IN  IF category \notin DOMAIN red_flag_categories
             THEN [state |-> s, is_none |-> FALSE,
                   ret |-> Raised("process_patient_response", "KeyError")]
             ELSE
             LET response_template_name ==
                     Get(red_flag_categories[category], "response_template",
                         "medical_emergency_cardiac")
                 response_data ==
                     Get(template.red_flag_responses, response_template_name, <<>>)
                 emergency_message ==
                     Get(response_data, "message", "Please seek urgent medical attention.")
                 s1 == record_red_flag(s, category, severity, None, "awaiting_response")
                 s2 == add_message(s1, "clara", emergency_message, "red_flag_response",
                                   <<"red_flag", category, severity>>)
             IN  [state |-> s2, is_none |-> FALSE,
                  ret |-> Returned("process_patient_response", emergency_message,
                                   FALSE, None)]

farewell_indicators ==
    <<"you're all set", "you're good to go", "that's all for now", "we're all done",
      "that covers everything", "i'll make sure dr", "see you at your appointment",
      "dr. smith will see you soon">>

\* the topic bookkeeping run before screening instead of after it (the turn
\* then asks the generated question)
process_patient_response_updates_first(s, template, patient_message, detected, clara_response) ==
    LET s0 == _update_checklist_from_response(
                  add_message(s, "patient", patient_message, None, <<>>), patient_message)
        red_flag_result == _check_red_flags(s0, template, detected)
    IN  IF ~red_flag_result.is_none
        THEN [state |-> red_flag_result.state, ret |-> red_flag_result.ret]
        ELSE [state |-> add_message(s0, "clara", clara_response,
                                    get_next_priority_topic(s0), <<>>),
              ret |-> Returned("process_patient_response", clara_response, FALSE, None)]

\* a farewell in the generated text ending the interview whatever topic is next
process_patient_response_farewell_always_ends(s, template, patient_message, detected, clara_response) ==
    LET s0 == add_message(s, "patient", patient_message, None, <<>>)
        red_flag_result == _check_red_flags(s0, template, detected)
    IN  IF ~red_flag_result.is_none
        THEN [state |-> red_flag_result.state, ret |-> red_flag_result.ret]
        ELSE
        LET s1 == _update_checklist_from_response(s0, patient_message)
        IN  IF should_end_conversation(s1)[1]
            THEN [state |-> end_conversation(
                                add_message(s1, "clara", _generate_closing_message,
                                            "closing", <<>>), "completed"),
                  ret |-> Returned("process_patient_response", _generate_closing_message,
                                   TRUE, "completed")]
            ELSE IF ContainsAny(Lower(clara_response), farewell_indicators)
            THEN [state |-> end_conversation(
                                add_message(mark_topic_complete(s1, "closing"), "clara",
                                            clara_response, "closing", <<>>), "completed"),
                  ret |-> Returned("process_patient_response", clara_response,
                                   TRUE, "completed")]
            ELSE [state |-> add_message(s1, "clara", clara_response,
                                        get_next_priority_topic(s1), <<>>),
                  ret |-> Returned("process_patient_response", clara_response,
                                   FALSE, None)]

\* clara_response is what _generate_next_question returned this turn
process_patient_response(s, template, patient_message, detected, clara_response) ==
    LET s0 == add_message(s, "patient", patient_message, None, <<>>)
        red_flag_result == _check_red_flags(s0, template, detected)
    IN  IF ~red_flag_result.is_none
        THEN [state |-> red_flag_result.state, ret |-> red_flag_result.ret]
        ELSE
        LET s1 == _update_checklist_from_response(s0, patient_message)
            should_end == should_end_conversation(s1)[1]
        IN  IF should_end
            THEN LET closing_message == _generate_closing_message
                     s2 == add_message(s1, "clara", closing_message, "closing", <<>>)
                 IN  [state |-> end_conversation(s2, "completed"),
                      ret |-> Returned("process_patient_response", closing_message,
                                       TRUE, "completed")]
            ELSE
            LET next_topic == get_next_priority_topic(s1)
                contains_farewell ==
                    ContainsAny(Lower(clara_response), farewell_indicators)
            IN  IF (next_topic = "closing" \/ next_topic = None) /\ contains_farewell
                THEN LET s2 == mark_topic_complete(s1, "closing")
                         s3 == add_message(s2, "clara", clara_response, "closing", <<>>)
                     IN  [state |-> end_conversation(s3, "completed"),
                          ret |-> Returned("process_patient_response", clara_response,
                                           TRUE, "completed")]
                ELSE [state |-> add_message(s1, "clara", clara_response, next_topic, <<>>),
                      ret |-> Returned("process_patient_response", clara_response,
                                       FALSE, None)]

agreed_keywords == <<"yes", "okay", "ok", "will", "i'll", "sure", "agree">>
declined_keywords == <<"no", "don't", "won't", "wait", "not", "can't">>

\* the update applied to red_flags_detected[0] instead of [-1]
SetLastRedFlag_first(s, patient_response, action_taken) ==
    IF s.red_flags_detected = <<>> THEN s
    ELSE [s EXCEPT !.red_flags_detected[1] =
                      [@ EXCEPT !.patient_response = patient_response,
                                !.action_taken = action_taken]]

\* red_flags_detected[-1].patient_response / .action_taken = ...
SetLastRedFlag(s, patient_response, action_taken) ==
    IF s.red_flags_detected = <<>> THEN s
    ELSE [s EXCEPT !.red_flags_detected[Len(s.red_flags_detected)] =
                      [@ EXCEPT !.patient_response = patient_response,
                                !.action_taken = action_taken]]

\* the patient's acknowledgement counts as agreement
Agrees(patient_response) ==
    LET response_lower == Lower(patient_response)
        agreed == ContainsAny(response_lower, agreed_keywords)
        declined == ContainsAny(response_lower, declined_keywords)
    IN  agreed /\ ~declined

\* next_question is what _generate_next_question returned
handle_red_flag_response(s, template, patient_response, next_question) ==
    LET s0 == add_message(s, "patient", patient_response, None, <<"red_flag_response">>)
    IN  IF Agrees(patient_response)
        THEN LET end_message ==
                     Replace(template.red_flag_responses.end_after_accept.message,
                             "{doctor_name}", doctor_name)
                 s1 == SetLastRedFlag(s0, "agreed", "ended_conversation")
                 s2 == add_message(s1, "clara", end_message, None, <<"red_flag_ending">>)
             IN  [state |-> end_conversation(s2, "ended_early_emergency"),
                  ret |-> Returned("handle_red_flag_response", end_message,
                                   TRUE, "emergency")]
        ELSE LET continue_message ==
                     Replace(template.red_flag_responses.continue_after_decline.message,
                             "{doctor_name}", doctor_name)
                 s1 == SetLastRedFlag(s0, "declined", "continued_with_warning")
                 s2 == add_message(s1, "clara", continue_message, None,
                                   <<"red_flag_continue">>)
                 next_topic == get_next_priority_topic(s2)
                 s3 == add_message(s2, "clara", next_question, next_topic, <<>>)
             IN  [state |-> s3,
                  ret |-> Returned("handle_red_flag_response",
                                   continue_message \o "\n\n" \o next_question,
                                   FALSE, None)]

(***************************************************************************)
(* The chat interface (ui/chat_interface.py): one run of                   *)
(* render_chat_interface with a patient input.  An exception of the agent  *)
(* ends the run where it is raised.                                        *)
(***************************************************************************)
LastRedFlag(s) == s.red_flags_detected[Len(s.red_flags_detected)]

EndIfShouldEnd(r, sess) ==
    [state |-> r.state, ret |-> r.ret,
     session |-> IF r.ret.should_end
                 THEN [sess EXCEPT !.conversation_ended = TRUE]
                 ELSE sess]

\* the interface never noting that an acknowledgement is awaited
render_chat_interface_never_awaits(sess, s, template, user_input, detected, clara_response) ==
    LET r == process_patient_response(s, template, user_input, detected, clara_response)
    IN  IF r.ret.raised
        THEN [state |-> r.state, ret |-> r.ret, session |-> sess]
        ELSE EndIfShouldEnd(r, sess)

\* the interface leaving awaiting_red_flag_response set after the
\* acknowledgement was handled
render_chat_interface_keeps_awaiting(sess, s, template, user_input, detected, clara_response) ==
    IF sess.awaiting_red_flag_response
    THEN EndIfShouldEnd(handle_red_flag_response(s, template, user_input, clara_response),
                        sess)
    ELSE LET r == process_patient_response(s, template, user_input, detected,
                                           clara_response)
         IN  IF r.ret.raised
             THEN [state |-> r.state, ret |-> r.ret, session |-> sess]
             ELSE IF /\ r.state.red_flags_detected # <<>>
                     /\ ~r.ret.should_end
                     /\ LastRedFlag(r.state).action_taken = "awaiting_response"
                  THEN EndIfShouldEnd(r, [sess EXCEPT !.awaiting_red_flag_response = TRUE])
                  ELSE EndIfShouldEnd(r, sess)

render_chat_interface(sess, s, template, user_input, detected, clara_response) ==
    IF sess.awaiting_red_flag_response
    THEN LET r == handle_red_flag_response(s, template, user_input, clara_response)
         IN  EndIfShouldEnd(r, [sess EXCEPT !.awaiting_red_flag_response = FALSE])
    ELSE LET r == process_patient_response(s, template, user_input, detected,
                                           clara_response)
         IN  IF r.ret.raised
             THEN [state |-> r.state, ret |-> r.ret, session |-> sess]
             ELSE IF /\ r.state.red_flags_detected # <<>>
                     /\ ~r.ret.should_end
                     /\ LastRedFlag(r.state).action_taken = "awaiting_response"
                  THEN EndIfShouldEnd(r, [sess EXCEPT !.awaiting_red_flag_response = TRUE])
                  ELSE EndIfShouldEnd(r, sess)

(***************************************************************************)
(* The state after construction (ClaraAgent.__init__) and the chat         *)
(* interface's session (initialize_chat_session).                          *)
(***************************************************************************)
\* the number of utterances submitted so far
Turns(s) == Cardinality({i \in DOMAIN s.messages : s.messages[i].speaker = "patient"})

NoDetection == [kind |-> "none"]

Call(op, patient_message, detected, clara_response) ==
    [op |-> op, patient_message |-> patient_message, detected |-> detected,
     clara_response |-> clara_response]

Init ==
    /\ checklist_template \in Templates
    /\ state = NewState(checklist_template)
    /\ conversation_started = FALSE
    /\ call = Call("__init__", None, NoDetection, None)
    /\ ret = Returned("__init__", None, FALSE, None)
    /\ session = [conversation_started |-> FALSE,
                  awaiting_red_flag_response |-> FALSE,
                  conversation_ended |-> FALSE]

(***************************************************************************)
(* Spec: calls of the agent's public methods by any caller, in any order   *)
(* (the test scripts call them directly).  The opening is requested at     *)
(* most once.                                                              *)
(***************************************************************************)
StartConversation ==
    /\ ~conversation_started
    /\ LET r == start_conversation(state, checklist_template)
       IN  state' = r.state /\ ret' = r.ret
    /\ conversation_started' = TRUE
    /\ call' = Call("start_conversation", None, NoDetection, None)
    /\ UNCHANGED <<checklist_template, session>>

ProcessPatientResponse ==
    /\ Turns(state) < MaxTurns
    /\ \E patient_message \in Answers, detected \in ScreeningOutcomes,
          clara_response \in ClaraResponses :
          LET r == process_patient_response(state, checklist_template, patient_message,
                                            detected, clara_response)
          IN  /\ state' = r.state
              /\ ret' = r.ret
              /\ call' = Call("process_patient_response", patient_message, detected,
                              clara_response)
    /\ UNCHANGED <<checklist_template, conversation_started, session>>

HandleRedFlagResponse ==
    /\ Turns(state) < MaxTurns
    /\ \E patient_response \in Acknowledgements, next_question \in ClaraResponses :
          LET r == handle_red_flag_response(state, checklist_template, patient_response,
                                            next_question)
          IN  /\ state' = r.state
              /\ ret' = r.ret
              /\ call' = Call("handle_red_flag_response", patient_response, NoDetection,
                              next_question)
    /\ UNCHANGED <<checklist_template, conversation_started, session>>

Next ==
    \/ StartConversation
    \/ ProcessPatientResponse
    \/ HandleRedFlagResponse

Spec == Init /\ [][Next]_vars

(***************************************************************************)
(* SpecUI: the agent driven by the chat interface.                         *)
(***************************************************************************)
UserInputs == Answers \cup Acknowledgements

\* the first run: the opening is requested and the script reruns
UIStart ==
    /\ ~session.conversation_started
    /\ LET r == start_conversation(state, checklist_template)
       IN  state' = r.state /\ ret' = r.ret
    /\ conversation_started' = TRUE
    /\ call' = Call("start_conversation", None, NoDetection, None)
    /\ session' = [session EXCEPT !.conversation_started = TRUE]
    /\ UNCHANGED checklist_template

\* a run with a patient input
UIPatientInput ==
    /\ session.conversation_started
    /\ ~session.conversation_ended
    /\ Turns(state) < MaxInputs
    /\ \E user_input \in UserInputs, detected \in ScreeningOutcomes,
          clara_response \in ClaraResponses :
          LET r == render_chat_interface(session, state, checklist_template, user_input,
                                         detected, clara_response)
          IN  /\ state' = r.state
              /\ ret' = r.ret
              /\ session' = r.session
              /\ call' = Call(r.ret.op, user_input,
                              IF r.ret.op = "process_patient_response"
                              THEN detected ELSE NoDetection,
                              clara_response)
    /\ UNCHANGED <<checklist_template, conversation_started>>

NextUI ==
    \/ UIStart
    \/ UIPatientInput

SpecUI == Init /\ [][NextUI]_vars

(***************************************************************************)
(* SpecState: the methods of a ConversationState called directly, as       *)
(* test_state.py does.                                                     *)
(***************************************************************************)
TopicArguments == {"chief_complaint", "closing", "family_history", "no_such_topic"}

AddMessage ==
    /\ Len(state.messages) < MaxStateMessages
    /\ \E speaker \in {"clara", "patient"} :
          state' = add_message(state, speaker, "text", None, <<>>)
    /\ UNCHANGED <<checklist_template, conversation_started, call, ret, session>>

MarkTopicComplete ==
    /\ \E topic \in TopicArguments : state' = mark_topic_complete(state, topic)
    /\ UNCHANGED <<checklist_template, conversation_started, call, ret, session>>

RecordRedFlag ==
    /\ Len(state.red_flags_detected) < MaxStateFlags
    /\ \E patient_response \in {None, "yes"},
          action_taken \in {"awaiting_response", "continued_with_warning",
                            "ended_conversation"} :
          state' = record_red_flag(state, "cardiac_chest_pain", "critical",
                                   patient_response, action_taken)
    /\ UNCHANGED <<checklist_template, conversation_started, call, ret, session>>

EndConversation ==
    /\ \E status \in {"completed", "ended_early_emergency"} :
          state' = end_conversation(state, status)
    /\ UNCHANGED <<checklist_template, conversation_started, call, ret, session>>

NextState ==
    \/ AddMessage
    \/ MarkTopicComplete
    \/ RecordRedFlag
    \/ EndConversation

SpecState == Init /\ [][NextState]_vars

(***************************************************************************)
(* AzureOpenAIService (services/azure_openai.py): the decision call.  A    *)
(* JSON value is a record naming its Python type: b holds a bool, s a str  *)
(* (or the digits of an int), l a list of strings.  A dict is a function   *)
(* from its keys to such values.                                           *)
(***************************************************************************)
JValue(type, b, s, l) == [type |-> type, b |-> b, s |-> s, l |-> l]
JBool(b) == JValue("bool", b, "", <<>>)
JStr(s) == JValue("str", FALSE, s, <<>>)
JInt(digits) == JValue("int", FALSE, digits, <<>>)
JList(l) == JValue("list", FALSE, "", l)
JNone == JValue("NoneType", FALSE, "", <<>>)

\* the keys of the defaults of _validate_decision
ContractFields ==
    {"red_flag_detected", "red_flag_category", "conversation_complete",
     "topics_completed", "optional_topics_to_skip", "current_topic", "next_question"}

\* the dict returned when the call fails
EmergencyFallback ==
    [red_flag_detected |-> JBool(FALSE),
     red_flag_category |-> JNone,
     conversation_complete |-> JBool(FALSE),
     topics_completed |-> JList(<<>>),
     optional_topics_to_skip |-> JList(<<>>),
     current_topic |-> JStr("closing"),
     next_question |-> JStr("Is there anything else you'd like to share?")]

\* re.search(r'"next_question":\s*"([^"]+)"', text): group 1 of the leftmost
\* match, or None
NextQuestionKey == "\"next_question\":"

MatchAt(text, i) ==
    LET n == Len(text)
        p == i + Len(NextQuestionKey)
        rest == {j \in p..n : ~IsSpace(SubSeq(text, j, j))}
    IN  IF rest = {} THEN None
        ELSE LET q == CHOOSE j \in rest : \A k \in rest : j <= k
                 closing == {j \in (q + 1)..n : SubSeq(text, j, j) = "\""}
             IN  IF SubSeq(text, q, q) # "\"" \/ closing = {} THEN None
                 ELSE LET e == CHOOSE j \in closing : \A k \in closing : j <= k
                      IN  IF e = q + 1 THEN None ELSE SubSeq(text, q + 1, e - 1)

SearchNextQuestion(text) ==
    LET L == Len(NextQuestionKey)
        matches == {i \in 1..(Len(text) - L + 1) :
                       /\ SubSeq(text, i, i + L - 1) = NextQuestionKey
                       /\ MatchAt(text, i) # None}
    IN  IF matches = {} THEN None
        ELSE MatchAt(text, CHOOSE i \in matches : \A k \in matches : i <= k)

\* the fallback parser taking any text as the question
_parse_fallback_response_whole_text(text) ==
    [EmergencyFallback EXCEPT !.next_question = JStr(text)]

_parse_fallback_response(text) ==
    LET decision == [EmergencyFallback EXCEPT
                         !.next_question = JStr("Could you tell me more?")]
        text_lower == Lower(text)
        d1 == IF Contains(text_lower, "next_question")
              THEN LET question_match == SearchNextQuestion(text)
                   IN  IF question_match # None
                       THEN [decision EXCEPT !.next_question = JStr(question_match)]
                       ELSE decision
              ELSE IF Contains(text, "?")
                   THEN [decision EXCEPT !.next_question = JStr(text)]
                   ELSE decision
    IN  IF Contains(text_lower, "red_flag") /\ Contains(text_lower, "true")
        THEN [d1 EXCEPT !.red_flag_detected = JBool(TRUE)]
        ELSE d1

ValidationDefaults ==
    [EmergencyFallback EXCEPT !.next_question = JStr("Is there anything else?")]

\* _validate_decision only adding the missing keys
_validate_decision_no_type_check(decision) ==
    [k \in DOMAIN decision \cup ContractFields |->
        IF k \in DOMAIN decision THEN decision[k] ELSE ValidationDefaults[k]]

\* decision is a dict here; get_clara_decision_json tells the other values
\* apart before it applies this
_validate_decision(decision) ==
    LET d0 == [k \in DOMAIN decision \cup ContractFields |->
                  IF k \in DOMAIN decision THEN decision[k] ELSE ValidationDefaults[k]]
        Checked(k, type, value) == IF d0[k].type # type THEN value ELSE d0[k]
    IN  [d0 EXCEPT
            !.red_flag_detected = Checked("red_flag_detected", "bool", JBool(FALSE)),
            !.conversation_complete =
                Checked("conversation_complete", "bool", JBool(FALSE)),
            !.topics_completed = Checked("topics_completed", "list", JList(<<>>)),
            !.optional_topics_to_skip =
                Checked("optional_topics_to_skip", "list", JList(<<>>)),
            !.next_question =
                Checked("next_question", "str", JStr("Could you tell me more?"))]

DecisionReturned(op, decision) == [op |-> op, raised |-> FALSE, decision |-> decision]

\* response is what client.chat.completions.create did: it raised, or it
\* returned a message whose content is None (content.strip() raises), a text
\* json.loads rejects, or a JSON document (type dict with its items, or
\* another type, on which the membership test or the item assignment of
\* _validate_decision raises TypeError).  The outer except turns every
\* exception into the emergency fallback.
get_clara_decision_json(response) ==
    DecisionReturned("get_clara_decision_json",
        IF response.kind \in {"raises", "no_content"}
        THEN EmergencyFallback
        ELSE IF response.kind = "text"
        THEN _validate_decision(_parse_fallback_response(Strip(response.content)))
        ELSE IF response.type # "dict"
        THEN EmergencyFallback
        ELSE _validate_decision(response.items))

\* the values a JSON object may give each contract field; Absent: it has no
\* such key
Absent == JValue("absent", FALSE, "", <<>>)

FieldChoices ==
    [red_flag_detected : {Absent, JBool(TRUE), JStr("yes")},
     red_flag_category : {Absent, JStr("cardiac_chest_pain")},
     conversation_complete : {Absent, JBool(TRUE), JBool(FALSE), JStr("true"), JInt("1")},
     topics_completed : {Absent, JList(<<>>), JList(<<"chief_complaint">>),
                         JStr("chief_complaint")},
     optional_topics_to_skip : {Absent, JList(<<"family_history">>), JNone},
     current_topic : {Absent, JStr("chief_complaint")},
     next_question : {Absent, JStr("What brings you in today?"), JStr(""), JInt("5"),
                      JNone}]

DictOf(choice) ==
    [k \in {f \in ContractFields : choice[f] # Absent} |-> choice[k]]

DecisionDicts == {DictOf(choice) : choice \in FieldChoices}

\* texts json.loads rejects
MalformedTexts ==
    {"",
     "  Could you describe the pain?\n",
     "I'm sorry, I can't help with that.",
     "{\"next_question\": \"How long has it lasted?\", \"conversation_complete\": true",
     "{\"next_question\":\n  \"Any allergies?\" \"red_flag_detected\": true}",
     "{'next_question': 'What else?'}",
     "{\"red_flag_detected\": true, \"next_question\": \"\"",
     "{\"next_question\": \"\", \"next_question\": \"Anything else?\""}

EmptyDict == [k \in {} |-> JNone]

Responses ==
    {[kind |-> "raises", content |-> "", type |-> None, items |-> EmptyDict],
     [kind |-> "no_content", content |-> "", type |-> None, items |-> EmptyDict]}
    \cup {[kind |-> "text", content |-> t, type |-> None, items |-> EmptyDict] :
             t \in MalformedTexts}
    \cup {[kind |-> "json", content |-> "", type |-> type, items |-> EmptyDict] :
             type \in {"list", "str", "int", "float", "bool", "NoneType"}}
    \cup {[kind |-> "json", content |-> "", type |-> "dict", items |-> d] :
             d \in DecisionDicts}

(***************************************************************************)
(* SpecDecision: one call of the decision service, or of its validation    *)
(* step, on each input.                                                    *)
(***************************************************************************)
DecisionCalls ==
    {[op |-> "get_clara_decision_json", response |-> r, decision |-> EmptyDict] :
        r \in Responses}
    \cup {[op |-> "_validate_decision", response |-> CHOOSE r \in Responses : r.kind = "raises",
           decision |-> d] : d \in DecisionDicts}

InitDecision ==
    /\ checklist_template = TemplateScenario
    /\ state = NewState(checklist_template)
    /\ conversation_started = FALSE
    /\ call \in DecisionCalls
    /\ ret = DecisionReturned("__init__", EmptyDict)
    /\ session = [conversation_started |-> FALSE,
                  awaiting_red_flag_response |-> FALSE,
                  conversation_ended |-> FALSE]

GetClaraDecisionJson ==
    /\ call.op = "get_clara_decision_json"
    /\ ret.op = "__init__"
    /\ ret' = get_clara_decision_json(call.response)
    /\ UNCHANGED <<checklist_template, state, conversation_started, call, session>>

ValidateDecision ==
    /\ call.op = "_validate_decision"
    /\ ret.op = "__init__"
    /\ ret' = DecisionReturned("_validate_decision", _validate_decision(call.decision))
    /\ UNCHANGED <<checklist_template, state, conversation_started, call, session>>

NextDecision ==
    \/ GetClaraDecisionJson
    \/ ValidateDecision

SpecDecision == InitDecision /\ [][NextDecision]_vars

(***************************************************************************)
(* Properties.                                                             *)
(***************************************************************************)
ClaraMessages(s) == {i \in DOMAIN s.messages : s.messages[i].speaker = "clara"}

Pending(s) ==
    /\ s.red_flags_detected # <<>>
    /\ LastRedFlag(s).action_taken = "awaiting_response"

Awaiting(s) ==
    {i \in DOMAIN s.red_flags_detected :
        s.red_flags_detected[i].action_taken = "awaiting_response"}

Completed(s, topic) == Get(s.checklist[topic], "completed", FALSE)

\* C1: whenever start_conversation, process_patient_response or
\* handle_red_flag_response has returned to its caller, question_count is at
\* most max_questions.
C1_QuestionCountWithinMax ==
    (ret.op \in {"start_conversation", "process_patient_response",
                 "handle_red_flag_response"} /\ ~ret.raised)
        => state.question_count <= state.max_questions

\* C2: once status is not in_progress, no call of the agent changes it.
C2_StatusMonotonic ==
    [][state.status # "in_progress" => state'.status = state.status]_vars

\* C3: a turn submitted when the question budget is already used up
\* (question_count >= max_questions) and answered leaves the interview in a
\* terminal status, so the interview cannot stay in_progress turn after turn.
C3_TurnAtCapEndsInterview ==
    [][(/\ state.question_count >= state.max_questions
        /\ Turns(state') = Turns(state) + 1
        /\ ~ret'.raised)
       => state'.status # "in_progress"]_vars

\* C4: should_end_conversation answers emergency if the emergency flag is
\* set; else max_questions if question_count >= max_questions, incomplete
\* required topics or not; else completed if closing is complete or no
\* required topic is incomplete; else continue.
C4_ShouldEndOrder ==
    LET closing_done == "closing" \in DOMAIN state.checklist /\ Completed(state, "closing")
        none_incomplete == \A i \in DOMAIN state.topics_required :
                               Completed(state, state.topics_required[i])
    IN  should_end_conversation(state) =
            IF state.conversation_ended_for_emergency THEN <<TRUE, "emergency">>
            ELSE IF state.question_count >= state.max_questions
                 THEN <<TRUE, "max_questions">>
            ELSE IF closing_done \/ none_incomplete THEN <<TRUE, "completed">>
            ELSE <<FALSE, "continue">>

\* the limit is reached with a required topic incomplete, and the answer is
\* max_questions
C4_Witness ==
    /\ ~state.conversation_ended_for_emergency
    /\ state.question_count >= state.max_questions
    /\ \E i \in DOMAIN state.topics_required : ~Completed(state, state.topics_required[i])
    /\ should_end_conversation(state) = <<TRUE, "max_questions">>

\* C5: question_count is the number of transcript messages whose speaker is
\* clara (so a patient message leaves it unchanged).
C5_QuestionCountIsClaraMessages ==
    state.question_count = Cardinality(ClaraMessages(state))

C5_Witness ==
    /\ Cardinality(ClaraMessages(state)) >= 2
    /\ Turns(state) >= 2
    /\ state.question_count = 2

C7_RedFlagDetected ==
    [][(/\ call'.op = "process_patient_response"
        /\ call'.detected.kind = "detected"
        /\ call'.detected.category \in DOMAIN RedFlagCategories(checklist_template))
       => LET before == state.red_flags_detected
              after == state'.red_flags_detected
              category == call'.detected.category
              name == RedFlagCategories(checklist_template)[category].response_template
          IN  /\ Len(after) = Len(before) + 1
              /\ SubSeq(after, 1, Len(before)) = before
              /\ after[Len(after)] =
                    [category |-> category, severity |-> call'.detected.severity,
                     patient_response |-> None, action_taken |-> "awaiting_response"]
              /\ ~ret'.raised
              /\ ret'.reply = checklist_template.red_flag_responses[name].message
              /\ ret'.should_end = FALSE
              /\ state'.status = state.status]_vars

C7_Witness ==
    /\ call.op = "process_patient_response"
    /\ call.detected.kind = "detected"
    /\ ~ret.raised
    /\ state.status = "in_progress"
    /\ Len(state.red_flags_detected) = 1
    /\ state.red_flags_detected[1].action_taken = "awaiting_response"

\* C8: when handle_red_flag_response classifies the utterance as agreement
\* and a red-flag event is pending, that event gets action_taken =
\* ended_conversation and patient_response = agreed, status becomes
\* ended_early_emergency, ended_at is set, and the call returns
\* should_end = True with reason emergency.
C8_AgreementEnds ==
    [][(/\ call'.op = "handle_red_flag_response"
        /\ Agrees(call'.patient_message)
        /\ Pending(state))
       => /\ state'.red_flags_detected =
                [state.red_flags_detected EXCEPT ![Len(state.red_flags_detected)] =
                    [@ EXCEPT !.action_taken = "ended_conversation",
                              !.patient_response = "agreed"]]
          /\ state'.status = "ended_early_emergency"
          /\ state'.ended_at # None
          /\ ret'.should_end = TRUE
          /\ ret'.end_reason = "emergency"]_vars

C8_Witness ==
    /\ call.op = "handle_red_flag_response"
    /\ Agrees(call.patient_message)
    /\ state.red_flags_detected # <<>>
    /\ LastRedFlag(state).action_taken = "ended_conversation"
    /\ LastRedFlag(state).patient_response = "agreed"
    /\ state.status = "ended_early_emergency"
    /\ ret.should_end

\* C9: after a red flag, the acknowledgements "yes I'll call now" and
\* "Yes, I'll call 999 right now" (an affirmative token, no negation token)
\* end the interview: status ended_early_emergency, patient_response agreed.
C9_CleanAgreementEnds ==
    [][(/\ call'.op = "handle_red_flag_response"
        /\ call'.patient_message \in {"yes I'll call now", "Yes, I'll call 999 right now"}
        /\ Pending(state))
       => /\ state'.status = "ended_early_emergency"
          /\ LastRedFlag(state').patient_response = "agreed"]_vars

\* C10: when handle_red_flag_response classifies the utterance as a decline,
\* a red-flag event is pending and the interview is in progress, that event
\* gets action_taken = continued_with_warning and patient_response =
\* declined, status remains in_progress, the generated question is appended
\* as the last transcript message and should_end = False is returned.
C10_DeclineContinues ==
    [][(/\ call'.op = "handle_red_flag_response"
        /\ ~Agrees(call'.patient_message)
        /\ Pending(state)
        /\ state.status = "in_progress")
       => /\ state'.red_flags_detected =
                [state.red_flags_detected EXCEPT ![Len(state.red_flags_detected)] =
                    [@ EXCEPT !.action_taken = "continued_with_warning",
                              !.patient_response = "declined"]]
          /\ state'.status = "in_progress"
          /\ Len(state'.messages) = Len(state.messages) + 3
          /\ SubSeq(state'.messages, 1, Len(state.messages)) = state.messages
          /\ LET last == state'.messages[Len(state'.messages)]
             IN  last.speaker = "clara" /\ last.text = call'.clara_response
          /\ ret'.should_end = FALSE]_vars

C10_Witness ==
    /\ call.op = "handle_red_flag_response"
    /\ call.patient_message = "no, not going to"
    /\ state.red_flags_detected # <<>>
    /\ LastRedFlag(state).action_taken = "continued_with_warning"
    /\ LastRedFlag(state).patient_response = "declined"
    /\ state.status = "in_progress"
    /\ state.messages[Len(state.messages)].speaker = "clara"
    /\ ~ret.should_end

\* the emergency message of a catalogued category
EmergencyMessage(template, category) ==
    template.red_flag_responses[
        RedFlagCategories(template)[category].response_template].message

\* C11: a process_patient_response turn on which a red flag (of a catalogued
\* category) is detected leaves every topic-completion flag and
\* topics_completed unchanged and appends, after the patient's utterance,
\* exactly one interviewer message, the emergency message.
C11_FlaggedTurnSkipsBookkeeping ==
    [][(/\ call'.op = "process_patient_response"
        /\ call'.detected.kind = "detected"
        /\ call'.detected.category \in DOMAIN RedFlagCategories(checklist_template))
       => LET n == Len(state.messages)
          IN  /\ state'.checklist = state.checklist
              /\ state'.topics_completed = state.topics_completed
              /\ Len(state'.messages) = n + 2
              /\ SubSeq(state'.messages, 1, n) = state.messages
              /\ state'.messages[n + 1].speaker = "patient"
              /\ state'.messages[n + 2].speaker = "clara"
              /\ state'.messages[n + 2].text =
                     EmergencyMessage(checklist_template, call'.detected.category)
              /\ state'.messages[n + 2].topic = "red_flag_response"]_vars

\* a red flag is detected on a turn whose utterance, more than three words
\* long, answers a question about a checklist topic: the topic stays
\* incomplete
C11_Witness ==
    /\ call.op = "process_patient_response"
    /\ call.detected.kind = "detected"
    /\ ~ret.raised
    /\ WordCount(call.patient_message) > 3
    /\ Len(state.messages) >= 3
    /\ LET m == state.messages[Len(state.messages) - 2]
       IN  /\ m.speaker = "clara"
           /\ m.topic \in DOMAIN state.checklist
           /\ ~Completed(state, m.topic)
    /\ state.messages[Len(state.messages)].topic = "red_flag_response"

\* C12: whenever process_patient_response has returned should_end = True,
\* the last transcript message is an interviewer message with topic closing,
\* status = completed and ended_at is set.
C12_ShouldEndClosesInterview ==
    (ret.op = "process_patient_response" /\ ~ret.raised /\ ret.should_end)
        => /\ state.messages # <<>>
           /\ state.messages[Len(state.messages)].speaker = "clara"
           /\ state.messages[Len(state.messages)].topic = "closing"
           /\ state.status = "completed"
           /\ state.ended_at # None

\* the question-generation call returned a farewell and the turn ended the
\* interview with it
C12_Witness ==
    /\ ret.op = "process_patient_response"
    /\ ret.should_end
    /\ ret.reply = call.clara_response
    /\ ret.reply # _generate_closing_message
    /\ state.messages[Len(state.messages)].topic = "closing"
    /\ state.status = "completed"

\* C13: a process_patient_response call made when the hard question cap is
\* reached (question_count >= max_questions), on which screening detects
\* nothing, terminates the interview and reports the end reason
\* max_questions to the caller.
C13_CapReportsMaxQuestions ==
    [][(/\ state.question_count >= state.max_questions
        /\ call'.op = "process_patient_response"
        /\ call'.detected.kind = "none")
       => /\ ret'.should_end
          /\ state'.status # "in_progress"
          /\ ret'.end_reason = "max_questions"]_vars

\* C14: the cap check precedes red-flag screening: a process_patient_response
\* call made with question_count >= max_questions returns should_end = True
\* and records no new red-flag event, even when screening flags the utterance.
C14_CapCheckBeforeScreening ==
    [][(/\ state.question_count >= state.max_questions
        /\ call'.op = "process_patient_response"
        /\ call'.detected.kind = "detected"
        /\ call'.detected.category \in DOMAIN RedFlagCategories(checklist_template))
       => /\ ret'.should_end
          /\ state'.red_flags_detected = state.red_flags_detected]_vars

\* C15: once status is not in_progress, no later call of
\* process_patient_response or handle_red_flag_response appends a further
\* message other than a closing one, records a red-flag event, or alters a
\* topic-completion flag.
C15_TerminalStateIsFrozen ==
    [][(/\ state.status # "in_progress"
        /\ call'.op \in {"process_patient_response", "handle_red_flag_response"})
       => /\ \A i \in (Len(state.messages) + 1)..Len(state'.messages) :
                 state'.messages[i].topic = "closing"
          /\ state'.red_flags_detected = state.red_flags_detected
          /\ state'.checklist = state.checklist]_vars

\* C16: in every reachable state ended_at is set if and only if status is
\* not in_progress.
C16_EndedAtIffTerminal ==
    (state.ended_at # None) <=> (state.status # "in_progress")

\* the conversation was ended by recording a red flag with
\* action_taken = ended_conversation
C16_Witness ==
    /\ state.conversation_ended_for_emergency
    /\ state.status = "ended_early_emergency"
    /\ state.ended_at # None

\* C17: when the screening call raises, process_patient_response does not
\* propagate the failure: the turn ends in the state and with the return
\* value of the same turn with no red flag detected (no event recorded, the
\* interview not ended by the failure).
C17_ScreeningFailureIsSoft ==
    [][(/\ call'.op = "process_patient_response"
        /\ call'.detected.kind = "raises")
       => LET r == process_patient_response(state, checklist_template,
                                            call'.patient_message, NoDetection,
                                            call'.clara_response)
          IN  /\ ~ret'.raised
              /\ state' = r.state
              /\ ret' = r.ret]_vars

\* a JSON object was returned and gives the field a value of the type
Supplied(response, field, type) ==
    /\ response.kind = "json"
    /\ response.type = "dict"
    /\ field \in DOMAIN response.items
    /\ response.items[field].type = type

\* C18: get_clara_decision_json never raises: for an unparseable text, a
\* JSON value of any shape, a missing content or a transport failure it
\* returns a decision with every contract field, in which next_question is a
\* string, conversation_complete a boolean and both topic lists are lists;
\* each of these is the value a well-formed JSON object supplied, and
\* otherwise next_question is non-empty, conversation_complete is False and
\* the lists are empty.
C18_DecisionCallNeverFails ==
    (ret.op = "get_clara_decision_json")
        => LET response == call.response
               decision == ret.decision
               Holds(field, type, fallback) ==
                   /\ decision[field].type = type
                   /\ IF Supplied(response, field, type)
                      THEN decision[field] = response.items[field]
                      ELSE fallback
           IN  /\ ~ret.raised
               /\ ContractFields \subseteq DOMAIN decision
               /\ Holds("next_question", "str", decision.next_question.s # "")
               /\ Holds("conversation_complete", "bool",
                        decision.conversation_complete = JBool(FALSE))
               /\ Holds("topics_completed", "list",
                        decision.topics_completed = JList(<<>>))
               /\ Holds("optional_topics_to_skip", "list",
                        decision.optional_topics_to_skip = JList(<<>>))

\* a truncated JSON text was returned: the question is taken out of it and
\* the interview is not reported complete
C18_Witness ==
    /\ ret.op = "get_clara_decision_json"
    /\ call.response.kind = "text"
    /\ Contains(call.response.content, "\"conversation_complete\": true")
    /\ ret.decision.next_question = JStr("How long has it lasted?")
    /\ ret.decision.conversation_complete = JBool(FALSE)

\* the type the decision contract gives each field
ContractType(field) ==
    CASE field \in {"red_flag_detected", "conversation_complete"} -> {"bool"}
      [] field \in {"topics_completed", "optional_topics_to_skip"} -> {"list"}
      [] field \in {"next_question", "current_topic"} -> {"str"}
      [] field = "red_flag_category" -> {"str", "NoneType"}

GenericPrompts == {JStr("Is there anything else?"), JStr("Could you tell me more?")}

\* C19: for every input dictionary _validate_decision returns a decision
\* with all contract fields, in which conversation_complete is a boolean
\* (False if absent or wrong-typed), topics_completed and
\* optional_topics_to_skip are lists (empty if absent or wrong-typed) and
\* next_question is a string (a generic prompt if absent or wrong-typed);
\* every field present with the right type is kept unchanged.
C19_ValidateDecisionContract ==
    (ret.op = "_validate_decision")
        => LET input == call.decision
               decision == ret.decision
               Right(field) == field \in DOMAIN input
                               /\ input[field].type \in ContractType(field)
           IN  /\ ~ret.raised
               /\ ContractFields \subseteq DOMAIN decision
               /\ decision.conversation_complete.type = "bool"
               /\ ~Right("conversation_complete")
                      => decision.conversation_complete = JBool(FALSE)
               /\ \A field \in {"topics_completed", "optional_topics_to_skip"} :
                      /\ decision[field].type = "list"
                      /\ ~Right(field) => decision[field] = JList(<<>>)
               /\ decision.next_question.type = "str"
               /\ ~Right("next_question") => decision.next_question \in GenericPrompts
               /\ \A field \in ContractFields :
                      Right(field) => decision[field] = input[field]

\* a dictionary with a wrong-typed conversation_complete, no next_question
\* and a well-typed topics_completed was validated
C19_Witness ==
    /\ ret.op = "_validate_decision"
    /\ "conversation_complete" \in DOMAIN call.decision
    /\ call.decision.conversation_complete = JInt("1")
    /\ "next_question" \notin DOMAIN call.decision
    /\ "topics_completed" \in DOMAIN call.decision
    /\ call.decision.topics_completed = JList(<<"chief_complaint">>)
    /\ ret.decision.topics_completed = JList(<<"chief_complaint">>)
    /\ ret.decision.conversation_complete = JBool(FALSE)
    /\ ret.decision.next_question = JStr("Is there anything else?")

\* C20: mark_topic_complete with a topic id that is not in the checklist is
\* a no-op: the checklist, topics_completed and every other state field are
\* as before the call, and no error is raised.
C20_UnknownTopicIsNoOp ==
    \A topic \in TopicArguments \ DOMAIN state.checklist :
        mark_topic_complete(state, topic) = state

\* with a topic already completed, messages in the transcript and a red flag
\* recorded, marking a topic that is no key of the checklist changes nothing
C20_Witness ==
    /\ "no_such_topic" \notin DOMAIN state.checklist
    /\ state.topics_completed # <<>>
    /\ state.messages # <<>>
    /\ state.red_flags_detected # <<>>
    /\ mark_topic_complete(state, "no_such_topic") = state
    /\ ~InSeq("no_such_topic", state.topics_completed)

\* C21: mark_topic_complete is idempotent: a second call with the same topic
\* id leaves the state as the first call left it, with the topic once in
\* topics_completed.
C21_MarkTopicCompleteIdempotent ==
    \A topic \in TopicArguments :
        LET once == mark_topic_complete(state, topic)
            twice == mark_topic_complete(once, topic)
        IN  /\ twice = once
            /\ Cardinality({i \in DOMAIN twice.topics_completed :
                               twice.topics_completed[i] = topic}) <= 1

\* two topics are complete, and marking the first of them again changes
\* nothing
C21_Witness ==
    /\ Len(state.topics_completed) = 2
    /\ state.topics_completed[1] # state.topics_completed[2]
    /\ Completed(state, state.topics_completed[1])
    /\ mark_topic_complete(state, state.topics_completed[1]) = state

\* the place of a topic in a list of topic ids
IndexIn(topic, topics) == CHOOSE i \in DOMAIN topics : topics[i] = topic

\* C22: get_incomplete_required_topics returns exactly the required topics
\* not marked complete, each once, in ascending priority, topics of equal
\* priority in the template's declaration order.
C22_IncompleteRequiredSorted ==
    LET result == get_incomplete_required_topics(state)
        required == {state.topics_required[i] : i \in DOMAIN state.topics_required}
    IN  /\ {result[i] : i \in DOMAIN result} =
               {topic \in required : ~Completed(state, topic)}
        /\ \A i, j \in DOMAIN result :
               i < j => /\ result[i] # result[j]
                        /\ PriorityOf(state, result[i]) <= PriorityOf(state, result[j])
                        /\ PriorityOf(state, result[i]) = PriorityOf(state, result[j])
                               => IndexIn(result[i], state.topics_required)
                                      < IndexIn(result[j], state.topics_required)

\* C23 as stated: the list of incomplete required topics is empty if and
\* only if should_end_conversation reports termination.
C23_EmptyIffTermination ==
    (get_incomplete_required_topics(state) = <<>>) <=> should_end_conversation(state)[1]

\* C23, amended: if the list of incomplete required topics is empty,
\* should_end_conversation reports termination; it reports termination with
\* a non-empty list only when the emergency flag is set, the question cap is
\* reached or closing is marked complete.
C23_EmptyImpliesTermination ==
    LET incomplete == get_incomplete_required_topics(state)
        answer == should_end_conversation(state)
    IN  /\ incomplete = <<>> => answer[1]
        /\ (answer[1] /\ incomplete # <<>>)
               => \/ state.conversation_ended_for_emergency
                  \/ state.question_count >= state.max_questions
                  \/ is_topic_complete(state, "closing")

\* every required topic is complete below the cap: the answer is completed
C23_Witness ==
    /\ get_incomplete_required_topics(state) = <<>>
    /\ state.topics_required # <<>>
    /\ ~state.conversation_ended_for_emergency
    /\ state.question_count < state.max_questions
    /\ should_end_conversation(state) = <<TRUE, "completed">>

\* the topics of a list that are not marked complete
IncompleteOf(s, topics) ==
    {topics[i] : i \in DOMAIN topics} \ {topic \in DOMAIN s.checklist : Completed(s, topic)}

\* topic is one of topics and none of them has a lower priority number
LowestPriority(s, topic, topics) ==
    /\ topic \in topics
    /\ \A other \in topics : PriorityOf(s, topic) <= PriorityOf(s, other)

IdsOf(topics) == {topics[i] : i \in DOMAIN topics}

\* C25: in every reachable state each topic id is in at most one of
\* topics_required and topics_optional, and over every step a topic that is
\* required stays required and does not become optional.
C25_RequiredOptionalDisjoint ==
    [][/\ IdsOf(state.topics_required) \cap IdsOf(state.topics_optional) = {}
       /\ IdsOf(state'.topics_required) \cap IdsOf(state'.topics_optional) = {}
       /\ IdsOf(state.topics_required) \subseteq IdsOf(state'.topics_required)]_vars

\* a turn has completed a topic; the template's required and optional
\* topics are where they were
C25_Witness ==
    /\ state.topics_completed # <<>>
    /\ Turns(state) >= 2
    /\ state.topics_required = SelectIds(checklist_template.checklist, TRUE)
    /\ state.topics_optional = SelectIds(checklist_template.checklist, FALSE)
    /\ state.topics_optional # <<>>

\* C26: when relevance detection names the optional topic family_history on a
\* process_patient_response turn (no red flag), the topic is moved from
\* topics_optional to topics_required and its checklist entry is marked
\* required and dynamically_activated.  process_patient_response calls no
\* relevance detection, so the topic named stands for whatever it would
\* return.
C26_RelevantTopicActivated ==
    [][(/\ call'.op = "process_patient_response"
        /\ call'.detected.kind = "none"
        /\ InSeq("family_history", state.topics_optional))
       => /\ InSeq("family_history", state'.topics_required)
          /\ ~InSeq("family_history", state'.topics_optional)
          /\ Get(state'.checklist["family_history"], "required", FALSE)
          /\ Get(state'.checklist["family_history"], "dynamically_activated", FALSE)]_vars

\* the action_taken values of a red-flag event
ActionsTaken == {"awaiting_response", "continued_with_warning", "ended_conversation"}

\* C27: record_red_flag appends exactly one event; with action_taken =
\* ended_conversation the state it leaves has status ended_early_emergency,
\* ended_at set and the emergency flag set, so that should_end_conversation
\* answers emergency; with any other action_taken status, ended_at and the
\* emergency flag are as before.
C27_RecordRedFlag ==
    \A patient_response \in {None, "yes"}, action_taken \in ActionsTaken :
        LET after == record_red_flag(state, "cardiac_chest_pain", "critical",
                                     patient_response, action_taken)
            event == [category |-> "cardiac_chest_pain", severity |-> "critical",
                      patient_response |-> patient_response,
                      action_taken |-> action_taken]
        IN  /\ after.red_flags_detected = Append(state.red_flags_detected, event)
            /\ after.messages = state.messages
            /\ after.checklist = state.checklist
            /\ IF action_taken = "ended_conversation"
               THEN /\ after.status = "ended_early_emergency"
                    /\ after.ended_at # None
                    /\ after.conversation_ended_for_emergency
                    /\ should_end_conversation(after) = <<TRUE, "emergency">>
               ELSE /\ after.status = state.status
                    /\ after.ended_at = state.ended_at
                    /\ after.conversation_ended_for_emergency
                           = state.conversation_ended_for_emergency

\* a second red flag was recorded with ended_conversation, below the
\* question cap: the answer is emergency
C27_Witness ==
    /\ Len(state.red_flags_detected) = 2
    /\ state.red_flags_detected[1].action_taken = "awaiting_response"
    /\ state.red_flags_detected[2].action_taken = "ended_conversation"
    /\ state.status = "ended_early_emergency"
    /\ state.question_count < state.max_questions
    /\ should_end_conversation(state) = <<TRUE, "emergency">>

\* C28: in every reachable state every topic id referenced in the state
\* (topics_required, topics_optional, topics_completed and the topic tag of
\* every message that has one) is a key of the checklist.
C28_TopicIdsInChecklist ==
    LET tags == {state.messages[i].topic : i \in DOMAIN state.messages} \ {None}
    IN  (IdsOf(state.topics_required) \cup IdsOf(state.topics_optional)
            \cup IdsOf(state.topics_completed) \cup tags)
        \subseteq DOMAIN state.checklist

\* C29: the transcript is append-only: over every step the message sequence
\* before is a prefix of the message sequence after, so that an earlier
\* transcript is a prefix of every later one.
C29_TranscriptAppendOnly ==
    [][/\ Len(state'.messages) >= Len(state.messages)
       /\ SubSeq(state'.messages, 1, Len(state.messages)) = state.messages]_vars

\* a decline was answered: three messages were appended in one call after
\* the earlier turns
C29_Witness ==
    /\ call.op = "handle_red_flag_response"
    /\ ~ret.should_end
    /\ Len(state.messages) >= 6
    /\ state.messages[1].topic = "opening"
    /\ state.messages[Len(state.messages) - 1].flags = <<"red_flag_continue">>

\* C30: a red-flag event is never deleted and is mutated at most once: over
\* every step each recorded event is still there, an event whose
\* action_taken has left awaiting_response is unchanged, and an event that
\* changes goes to ended_conversation or continued_with_warning.
C30_RedFlagEventMutatedOnce ==
    [][\A i \in DOMAIN state.red_flags_detected :
          /\ i \in DOMAIN state'.red_flags_detected
          /\ state.red_flags_detected[i].action_taken # "awaiting_response"
                 => state'.red_flags_detected[i] = state.red_flags_detected[i]
          /\ state'.red_flags_detected[i] # state.red_flags_detected[i]
                 => state'.red_flags_detected[i].action_taken
                        \in {"ended_conversation", "continued_with_warning"}]_vars

\* C31: every call of process_patient_response that returns appends the
\* utterance as one patient message followed by exactly one interviewer
\* message, the reply, on every return path; question_count grows by
\* exactly 1.
C31_OnePatientOneClaraMessage ==
    [][(call'.op = "process_patient_response" /\ ~ret'.raised)
       => LET n == Len(state.messages)
          IN  /\ Len(state'.messages) = n + 2
              /\ SubSeq(state'.messages, 1, n) = state.messages
              /\ state'.messages[n + 1].speaker = "patient"
              /\ state'.messages[n + 1].text = call'.patient_message
              /\ state'.messages[n + 2].speaker = "clara"
              /\ state'.messages[n + 2].text = ret'.reply
              /\ state'.question_count = state.question_count + 1]_vars

\* three return paths taken in one interview: a red flag, a normal question
\* and the closing message at the cap
C31_Witness ==
    /\ call.op = "process_patient_response"
    /\ ret.should_end
    /\ ret.reply = _generate_closing_message
    /\ Len(state.messages) = 6
    /\ state.messages[2].topic = "red_flag_response"
    /\ state.messages[4].topic \in DOMAIN state.checklist
    /\ state.messages[6].topic = "closing"
    /\ state.question_count = 3

\* the calls so far were start_conversation and then only calls of
\* process_patient_response that returned (each patient message is followed
\* by its reply) with no red flag reported
OnlyUnflaggedTurns(s) ==
    /\ Len(s.messages) % 2 = 1
    /\ s.red_flags_detected = <<>>
    /\ \A i \in DOMAIN s.messages :
          /\ s.messages[i].speaker = (IF i % 2 = 1 THEN "clara" ELSE "patient")
          /\ (s.messages[i].topic = "opening") <=> (i = 1)
          /\ s.messages[i].flags = <<>>

\* C32: if screening never reports a red flag, then after start_conversation
\* at most max_questions calls of process_patient_response are made before
\* one returns should_end = True: once max_questions such calls have
\* returned, one of them has ended the interview.
C32_EndsWithinMaxQuestionsCalls ==
    (OnlyUnflaggedTurns(state) /\ Turns(state) >= state.max_questions)
        => \E i \in DOMAIN state.messages :
              /\ i <= 2 * state.max_questions + 1
              /\ state.messages[i].speaker = "clara"
              /\ state.messages[i].topic = "closing"
              /\ state.status = "completed"

\* call number max_questions found the cap reached, no topic complete, and
\* ended the interview
C32_Witness ==
    /\ OnlyUnflaggedTurns(state)
    /\ Turns(state) = state.max_questions
    /\ state.topics_completed = <<>>
    /\ call.op = "process_patient_response"
    /\ ret.should_end
    /\ state.status = "completed"


\* C33: under the chat-interface driver, whenever the latest red-flag event is
\* awaiting_response the next patient input is passed to
\* handle_red_flag_response and not to process_patient_response, and the
\* input after that returns to process_patient_response (as does every input
\* while no acknowledgement is awaited); after a call returns
\* should_end = True no further agent operation is invoked.
C33_DriverRouting ==
    [][/\ ~ret.should_end
       /\ Pending(state) => call'.op = "handle_red_flag_response"
       /\ call.op = "handle_red_flag_response"
             => call'.op = "process_patient_response"
       /\ (~Pending(state) /\ call.op # "__init__")
             => call'.op = "process_patient_response"]_vars

\* a red flag was raised, the next input was handled as its acknowledgement
\* (declined), and the input after that was processed as an ordinary answer
C33_Witness ==
    /\ session.conversation_started
    /\ call.op = "process_patient_response"
    /\ ~ret.raised
    /\ Len(state.red_flags_detected) = 1
    /\ LastRedFlag(state).action_taken = "continued_with_warning"
    /\ Turns(state) = 3


\* utterances of 1, 2 (padded with blanks), 3, 4 and 10 words, with and
\* without a done phrase
BookkeepingUtterances ==
    {"yes",
     "  fine thanks  ",
     "that's all thanks",
     "no, not going to",
     "it hurts when walking",
     "no I have nothing else to add to that today"}

\* C34: the patient-response bookkeeping of one process_patient_response call
\* marks at most one topic complete, and only the topic tag T of the most
\* recent interviewer message: when T is a checklist key and either T is not
\* closing and the utterance has more than 3 words, or T is closing and the
\* utterance has fewer than 10 words and contains a done phrase; otherwise no
\* completion flag changes.
C34_BookkeepingMarksLastTopicOnly ==
    \A m \in BookkeepingUtterances :
        LET T == LastClaraTopic(state)
            after == _update_checklist_from_response(state, m)
            marks == /\ T \in DOMAIN state.checklist
                     /\ \/ T # "closing" /\ WordCount(m) > 3
                        \/ /\ T = "closing"
                           /\ WordCount(m) < 10
                           /\ ContainsAny(Lower(m), done_phrases)
        IN  /\ DOMAIN after.checklist = DOMAIN state.checklist
            /\ \A k \in DOMAIN state.checklist :
                  Completed(after, k) <=> (Completed(state, k) \/ (marks /\ k = T))

\* the interviewer last asked the closing question and it is still open: a
\* short done phrase completes it, a ten-word one and a plain "yes" do not;
\* one turn earlier the four-word answer completed chief_complaint
C34_Witness ==
    /\ state.status = "in_progress"
    /\ LastClaraTopic(state) = "closing"
    /\ ~Completed(state, "closing")
    /\ Completed(state, "chief_complaint")
    /\ call.op = "process_patient_response"
    /\ call.patient_message = "no, not going to"
    /\ Completed(_update_checklist_from_response(state, "that's all thanks"), "closing")
    /\ ~Completed(_update_checklist_from_response(state,
                     "no I have nothing else to add to that today"), "closing")
    /\ ~Completed(_update_checklist_from_response(state, "yes"), "closing")


\* the generated text contains one of the fixed farewell phrases
IsFarewell(text) == ContainsAny(Lower(text), farewell_indicators)

C36_EmergencyStatusSetsFlag ==
    state.status = "ended_early_emergency"
        => /\ state.conversation_ended_for_emergency
           /\ should_end_conversation(state) = <<TRUE, "emergency">>


\* C37: in every reachable state, status = ended_early_emergency implies that
\* the red-flag event list contains an event with
\* action_taken = ended_conversation (an interview is never ended for
\* emergency without a recorded, acknowledged red flag), for any order of
\* process_patient_response and handle_red_flag_response calls.
C37_EmergencyEndHasAcknowledgedEvent ==
    state.status = "ended_early_emergency"
        => \E i \in DOMAIN state.red_flags_detected :
              state.red_flags_detected[i].action_taken = "ended_conversation"


\* C38: while status is in_progress and the template has at least one
\* required topic, every question appended by the normal path of
\* process_patient_response or by the decline branch of
\* handle_red_flag_response is tagged with the highest-priority incomplete
\* required topic; it is never tagged with an optional topic or with no
\* topic, so optional topics are never asked.
C38_QuestionsTaggedWithRequiredTopic ==
    [][(/\ state.status = "in_progress"
        /\ state.topics_required # <<>>
        /\ ~ret'.raised
        /\ ~ret'.should_end
        /\ \/ call'.op = "process_patient_response" /\ call'.detected.kind = "none"
           \/ call'.op = "handle_red_flag_response")
       => LET question == state'.messages[Len(state'.messages)]
          IN  /\ Len(state'.messages) > Len(state.messages)
              /\ question.speaker = "clara"
              /\ question.text = call'.clara_response
              /\ LowestPriority(state', question.topic,
                                IncompleteOf(state', state'.topics_required))
              /\ question.topic \notin IdsOf(state'.topics_optional)
              /\ question.topic # None]_vars

\* the warning was declined with chief_complaint complete, closing (99) and
\* red_flags (4) still open and family_history optional: the question that
\* follows the warning is tagged red_flags
C38_Witness ==
    /\ call.op = "handle_red_flag_response"
    /\ ~ret.should_end
    /\ state.status = "in_progress"
    /\ "family_history" \in IdsOf(state.topics_optional)
    /\ Completed(state, "chief_complaint")
    /\ state.messages[Len(state.messages)].topic = "red_flags"
    /\ state.messages[Len(state.messages) - 1].flags = <<"red_flag_continue">>


\* C39: in every reachable state (for a template whose topics all start not
\* completed) topics_completed contains no duplicates, and a topic id is in
\* topics_completed exactly when its checklist entry has completed = True; a
\* completion flag once True never returns to False.
C39_TopicsCompletedMatchesFlags ==
    [][/\ \A i, j \in DOMAIN state'.topics_completed :
             state'.topics_completed[i] = state'.topics_completed[j] => i = j
       /\ IdsOf(state'.topics_completed) =
              {topic \in DOMAIN state'.checklist : Completed(state', topic)}
       /\ \A topic \in DOMAIN state.checklist :
             Completed(state, topic)
                 => topic \in DOMAIN state'.checklist /\ Completed(state', topic)]_vars

\* three topics were marked, one of them family_history, an entry with no
\* completed key at the start: each is listed once, and red_flags, never
\* marked, is not listed
C39_Witness ==
    /\ state.topics_completed = <<"closing", "family_history", "chief_complaint">>
    /\ Completed(state, "family_history")
    /\ "red_flags" \in DOMAIN state.checklist
    /\ ~Completed(state, "red_flags")
    /\ state.status = "completed"


\* C40: if screening returns a category that is not a key of the template's
\* red-flag catalogue, process_patient_response raises no exception and
\* records no red-flag event for it; the turn completes with a reply to the
\* caller.
C40_UncataloguedCategoryIgnored ==
    [][(/\ call'.op = "process_patient_response"
        /\ call'.detected.kind = "detected"
        /\ call'.detected.category \notin DOMAIN RedFlagCategories(checklist_template))
       => /\ ~ret'.raised
          /\ state'.red_flags_detected = state.red_flags_detected
          /\ Len(state'.messages) = Len(state.messages) + 2
          /\ state'.messages[Len(state'.messages)].speaker = "clara"
          /\ state'.messages[Len(state'.messages)].text = ret'.reply]_vars

====
